---- MODULE Spec2Model ----
\* A model of the Qb query builder (src/qb.js) and of the SelectSpec
\* expression composer (src/lib/select.js).
\*
\* JavaScript objects whose key order is observable (the definitions passed
\* to define(), the columns and joins of a table) are sequences of records
\* with unique names, in insertion order.  The JavaScript value `undefined`
\* is the string Undefined; `a || b` is Or(a, b).
EXTENDS Integers, Sequences, FiniteSets, TLC

VARIABLES
    definitions,   \* this.definitions: table name -> normalized table definition
    models,        \* this.models: table name -> column names of the sql model
    schema,        \* this.schema: sequence of public table entries
    functions,     \* this.functions: function id -> [name, args]
    idCounter,     \* underscore's global counter behind _.uniqueId
    defined,       \* the definitions last passed to define(), as the caller wrote them
    input,         \* the same object, as define left it
    held,          \* the spec object last passed to query(), as query left it
    asked,         \* the spec the last query() was called with, as the caller wrote it
    op,            \* the call that produced the current state
    err,           \* the error that call threw, or NoErr
    result,        \* what the last query() built: join edges, node aliases, projection terms
    defines,       \* number of define() calls made on the instance (constructor included)
    queries,       \* number of query() calls made on the instance
    registered     \* history: what the caller's registerFunction calls stored, by id

vars == <<definitions, models, schema, functions, idCounter, defined, input, held, asked, op, err,
          result, defines, queries, registered>>

\* ---------------------------------------------------------------- bounds

\* define() calls made on one instance, the constructor's included.
MaxDefines == 2

\* Frames of joinOnce the stack holds before the engine gives up.
MaxStack == 6

\* query() calls made on one instance.
MaxQueries == 1

\* query() calls repeated with the spec object of the call before.
MaxRepeats == 1

\* Unique ids drawn from underscore before the instance was constructed.
MaxUid == 1

\* Functions in the chain of one select entry.
MaxFuncs == 2

\* registerFunction() calls a caller makes on one instance.
MaxRegisters == 1

\* ---------------------------------------------------------------- values

Undefined == "<undefined>"

\* JavaScript truthiness of a string-or-undefined value.
Truthy(v) == v # Undefined /\ v # ""

\* a || b
Or(a, b) == IF Truthy(a) THEN a ELSE b

NoErr == [type |-> "none", kind |-> "", names |-> <<>>]

Names(s) == {s[i].name : i \in DOMAIN s}

\* Index of the first element of s named n, 0 when there is none.
IndexOf(s, n) ==
    IF \E i \in DOMAIN s : s[i].name = n
    THEN CHOOSE i \in DOMAIN s : s[i].name = n /\ \A j \in 1..(i - 1) : s[j].name # n
    ELSE 0

\* obj[key] = value on an object kept in insertion order: an existing key
\* keeps its place, a new key goes last.
PutKey(s, r) ==
    IF IndexOf(s, r.name) = 0 THEN Append(s, r)
    ELSE [s EXCEPT ![IndexOf(s, r.name)] = r]

\* ---------------------------------------------------------------- normalize

\* The column map built by the two branches of normalize.  A string in the
\* list form is a bare column name; a string in the map form is the alias.
NormalizeColumn(shape, col) ==
    IF col.str
    THEN IF shape = "list"
         THEN [name |-> col.name, as |-> Undefined, hidden |-> FALSE]
         ELSE [name |-> col.name, as |-> Or(col.as, Undefined), hidden |-> FALSE]
    ELSE [name |-> col.name, as |-> col.as, hidden |-> col.hidden]

RECURSIVE NormalizeColumns(_, _, _)
NormalizeColumns(shape, items, acc) ==
    IF items = <<>> THEN acc
    ELSE NormalizeColumns(shape, Tail(items), PutKey(acc, NormalizeColumn(shape, Head(items))))

\* tableDef.primary_key after the columns were walked: the last column
\* object marked primary_key wins, else what the table definition carried.
RECURSIVE PrimaryKeyAfter(_, _)
PrimaryKeyAfter(items, pk) ==
    IF items = <<>> THEN pk
    ELSE PrimaryKeyAfter(Tail(items),
            IF ~Head(items).str /\ Head(items).primary_key THEN Head(items).name ELSE pk)

\* A normalized column, seen again as the input of a later normalize.
AsRawColumn(c) ==
    [name |-> c.name, str |-> FALSE, as |-> c.as, hidden |-> c.hidden, primary_key |-> FALSE]

AsRawColumns(cols) == [i \in DOMAIN cols |-> AsRawColumn(cols[i])]

\* definitions[name], on the object being normalized.
Lookup(defs, name) == defs[IndexOf(defs, name)]

\* Source/target keys default to primary_key if exists, else "id".
NormalizeJoin(defs, tableDef, join) ==
    [name       |-> join.name,
     as         |-> join.as,
     source_key |-> Or(join.source_key, Or(tableDef.primary_key, "id")),
     target_key |-> Or(join.target_key, Or(Lookup(defs, join.name).primary_key, "id")),
     via        |-> join.via]

\* The joins of one table: the first entry naming a table that is not a key
\* of the definitions stops the walk with the error of lines 133 and 149.
RECURSIVE NormalizeJoins(_, _, _, _)
NormalizeJoins(defs, tableDef, items, acc) ==
    IF items = <<>> THEN [joins |-> acc, err |-> NoErr]
    ELSE IF IndexOf(defs, Head(items).name) = 0
         THEN [joins |-> acc,
               err   |-> [type |-> "Error", kind |-> "UndefinedJoinTable",
                          names |-> <<tableDef.name, Head(items).name>>]]
         ELSE NormalizeJoins(defs, tableDef, Tail(items),
                             PutKey(acc, NormalizeJoin(defs, tableDef, Head(items))))

\* normalize, from table i on.  defs is the caller's object, changed in
\* place; reg is this.definitions.  A throw leaves both as they are at the
\* throw: the tables before the failing one are registered, and the failing
\* table has its name and columns rewritten but its joins untouched.
RECURSIVE NormalizeFrom(_, _, _)
NormalizeFrom(i, defs, reg) ==
    IF i > Len(defs) THEN [definitions |-> defs, registry |-> reg, err |-> NoErr]
    ELSE LET t     == defs[i]
             cols  == IF t.columns.shape = "none" THEN <<>>
                      ELSE NormalizeColumns(t.columns.shape, t.columns.items, <<>>)
             pk    == IF t.columns.shape = "none" THEN t.primary_key
                      ELSE PrimaryKeyAfter(t.columns.items, t.primary_key)
             t1    == [t EXCEPT !.primary_key = pk,
                                !.columns = [shape |-> "map", items |-> AsRawColumns(cols)]]
             defs1 == [defs EXCEPT ![i] = t1]
             js    == IF t.joins.shape = "none" THEN [joins |-> <<>>, err |-> NoErr]
                      ELSE NormalizeJoins(defs1, t1, t.joins.items, <<>>)
             t2    == [t1 EXCEPT !.joins = [shape |-> "map", items |-> js.joins]]
             entry == [name |-> t.name, as |-> t.as, hidden |-> t.hidden, primary_key |-> pk,
                       columns |-> cols, joins |-> js.joins]
         IN IF js.err # NoErr
            THEN [definitions |-> defs1, registry |-> reg, err |-> js.err]
            ELSE NormalizeFrom(i + 1, [defs EXCEPT ![i] = t2],
                               (t.name :> entry) @@ reg)

Normalize(defs, reg) == NormalizeFrom(1, defs, reg)

\* ---------------------------------------------------------------- define

\* The sql models registered by the loop of define: one per input table,
\* with the names of its columns.
RECURSIVE DefineModels(_, _)
DefineModels(defs, mods) ==
    IF defs = <<>> THEN mods
    ELSE DefineModels(Tail(defs),
            (Head(defs).name :> {Head(defs).columns.items[k].name :
                                    k \in DOMAIN Head(defs).columns.items}) @@ mods)

\* One entry of this.schema.
TableSchema(defs, t) ==
    [name    |-> t.name,
     as      |-> t.as,
     columns |-> LET visible(c) == ~c.hidden
                     cols == [k \in DOMAIN t.columns.items |->
                                [name |-> t.columns.items[k].name,
                                 as |-> t.columns.items[k].as,
                                 hidden |-> t.columns.items[k].hidden]]
                 IN SelectSeq(cols, visible),
     joins   |-> LET shown(j) == ~Lookup(defs, j.name).hidden
                 IN SelectSeq(t.joins.items, shown)]

\* buildSchema pushes one entry per table that is not hidden.
RECURSIVE BuildSchema(_, _, _)
BuildSchema(defs, i, sch) ==
    IF i > Len(defs) THEN sch
    ELSE BuildSchema(defs, i + 1,
            IF defs[i].hidden THEN sch ELSE Append(sch, TableSchema(defs, defs[i])))

\* ---------------------------------------------------------------- querySetup

TypeError(kind) == [type |-> "TypeError", kind |-> kind, names |-> <<>>]

\* A select entry's literal: t is the JavaScript type, finite what _.isFinite
\* answers for it.
NoValue == [t |-> "undefined", v |-> "", finite |-> FALSE]

NoModel == [resolved |-> FALSE, table |-> Undefined, alias |-> Undefined]

\* One element of spec.joins after querySetup: a string becomes { name },
\* an object keeps its whitelisted keys.
SetupJoin(el) ==
    IF el.str
    THEN [id |-> Undefined, name |-> el.name, as |-> Undefined, joinId |-> Undefined,
          model |-> NoModel]
    ELSE [id |-> el.id, name |-> el.name, as |-> el.as, joinId |-> el.joinId,
          model |-> NoModel]

\* One element of spec.selects after querySetup of qb.js: the whitelist
\* keeps functions, name, joinId and as.
SetupSelect(el) ==
    IF el.str
    THEN [name |-> el.name, joinId |-> Undefined, as |-> Undefined, functions |-> <<>>,
          on |-> Undefined, table |-> Undefined, value |-> NoValue]
    ELSE [name |-> el.name, joinId |-> el.joinId, as |-> el.as, functions |-> el.functions,
          on |-> Undefined, table |-> Undefined, value |-> NoValue]

\* spec.from, when given, is put in front of spec.joins.
SetupJoins(spec) ==
    LET js == [i \in DOMAIN spec.joins |-> SetupJoin(spec.joins[i])]
    IN IF spec.from.given THEN <<SetupJoin(spec.from)>> \o js ELSE js

SetupSelects(spec) == [i \in DOMAIN spec.selects |-> SetupSelect(spec.selects[i])]

\* ---------------------------------------------------------------- join

\* _.findWhere(list, { id: id }) || list[0], as an index into the heap of
\* join entries.  ixs lists the entries of the spec searched (spec.joins, or
\* the one entry of the stub spec of line 332).  An entry matches when it
\* has an id key with that value; entries built from JSON or by _.pick have
\* an id key only when the id is defined.
FindWhereId(heap, ixs, id) ==
    IF id # Undefined /\ \E k \in DOMAIN ixs : heap[ixs[k]].id = id
    THEN ixs[CHOOSE k \in DOMAIN ixs :
                /\ heap[ixs[k]].id = id
                /\ \A m \in 1..(k - 1) : heap[ixs[m]].id # id]
    ELSE 0

SourceOrLast(heap, ixs, id) ==
    IF FindWhereId(heap, ixs, id) # 0 THEN FindWhereId(heap, ixs, id) ELSE ixs[Len(ixs)]

SourceOf(heap, ixs, id) ==
    IF FindWhereId(heap, ixs, id) # 0 THEN FindWhereId(heap, ixs, id) ELSE ixs[1]

\* sourceDef.joins[name]
HasJoinDef(reg, source, name) ==
    source \in DOMAIN reg /\ IndexOf(reg[source].joins, name) # 0

JoinDefOf(reg, source, name) == reg[source].joins[IndexOf(reg[source].joins, name)]

\* _.findWhere(names, { alias: a })
NamedIndex(names, a) ==
    IF \E i \in DOMAIN names : names[i].alias = a
    THEN CHOOSE i \in DOMAIN names :
            names[i].alias = a /\ \A j \in 1..(i - 1) : names[j].alias # a
    ELSE 0

\* Lines 356 to 367: the alias of the joined model and the names array
\* after it.  A first use is stored with used = 1; a reuse bumps the count
\* and appends it, and the suffixed alias itself is not stored.
AliasFor(names, joinAs, defAs, joinName) ==
    LET joinAlias == Or(joinAs, defAs)
        key       == Or(joinAlias, joinName)
        n         == NamedIndex(names, key)
    IN IF n # 0
       THEN [alias |-> names[n].alias \o "_" \o ToString(names[n].used + 1),
             names |-> [names EXCEPT ![n].used = @ + 1]]
       ELSE [alias |-> key,
             names |-> Append(names, [alias |-> key, used |-> 1])]

\* The ON clause of line 376.
Predicate(sourceModel, sourceKey, joinModel, joinKey, mods, top, viaEntry) ==
    [source    |-> sourceModel.table,
     sourceAs  |-> sourceModel.alias,
     sourceKey |-> sourceKey,
     target    |-> joinModel.table,
     targetAs  |-> joinModel.alias,
     targetKey |-> joinKey,
     targetCol |-> joinKey \in mods[joinModel.table],
     top       |-> top,
     via       |-> viaEntry]

Fail(st, e) == [st EXCEPT !.err = e]

\* joinOnce(spec, join, joins, names).  ixs is spec.joins and j the join
\* entry, both as indices into st.heap; depth counts the frames of joinOnce
\* on the stack.
RECURSIVE JoinOnce(_, _, _, _, _, _)
JoinOnce(reg, mods, ixs, j, st, depth) ==
    LET join       == st.heap[j]
        s          == SourceOf(st.heap, ixs, join.joinId)
        sourceJoin == st.heap[s]
    IN
    IF depth > MaxStack THEN Fail(st, [type |-> "RangeError", kind |-> "StackOverflow", names |-> <<>>])
    ELSE IF sourceJoin.name \notin DOMAIN reg THEN Fail(st, TypeError("sourceDef undefined"))
    ELSE IF ~HasJoinDef(reg, sourceJoin.name, join.name)
         THEN Fail(st, TypeError("sourceDef.joins[join.name] undefined"))
    ELSE
    LET sourceDef    == reg[sourceJoin.name]
        jd           == JoinDefOf(reg, sourceJoin.name, join.name)
        intermediate == jd.via
    IN
    IF Truthy(intermediate)
    THEN LET viaId   == "_via_" \o ToString(st.uid + 1)
             joinVia == [id |-> viaId, name |-> intermediate, as |-> Undefined,
                         joinId |-> join.joinId, model |-> NoModel]
             v       == Len(st.heap) + 1
             st1     == [st EXCEPT !.uid = @ + 1,
                                   !.heap = Append([@ EXCEPT ![j].joinId = viaId], joinVia),
                                   !.vias = @ \cup {v}]
             st2     == JoinOnce(reg, mods, ixs, v, st1, depth + 1)
         IN IF st2.err # NoErr THEN st2
            ELSE JoinOnce(reg, mods, <<v>>, j, st2, depth + 1)
    ELSE
    IF join.name \notin DOMAIN reg /\ ~Truthy(join.as)
    THEN Fail(st, TypeError("joinDef undefined"))
    ELSE IF join.name \notin DOMAIN mods THEN Fail(st, TypeError("model undefined"))
    ELSE
    LET defAs   == IF join.name \in DOMAIN reg THEN reg[join.name].as ELSE Undefined
        al      == AliasFor(st.names, join.as, defAs, join.name)
        model   == [resolved |-> TRUE, table |-> join.name, alias |-> al.alias]
        st1     == [st EXCEPT !.names = al.names, !.heap[j].model = model]
        source  == st1.heap[s]
        sourceKey == Or(jd.source_key, sourceDef.primary_key)
    IN
    IF join.name \notin DOMAIN reg /\ ~Truthy(jd.target_key)
    THEN Fail(st1, TypeError("joinDef undefined"))
    ELSE
    LET joinKey == Or(jd.target_key, reg[join.name].primary_key)
    IN
    IF ~source.model.resolved THEN Fail(st1, TypeError("sourceJoin.model undefined"))
    ELSE IF sourceKey \notin mods[source.model.table]
         THEN Fail(st1, TypeError("sourceJoin.model[sourceKey] undefined"))
    ELSE [st1 EXCEPT !.edges = Append(@, Predicate(source.model, sourceKey, model, joinKey,
                                                   mods, st.top, j \in st.vias)),
                     !.nodes = Append(@, [entry |-> j, table |-> join.name,
                                          alias |-> al.alias, via |-> j \in st.vias])]

\* The loop of join over spec.joins[1..], stopping at the first throw.
RECURSIVE JoinLoop(_, _, _, _, _)
JoinLoop(reg, mods, n, i, st) ==
    IF i > n \/ st.err # NoErr THEN st
    ELSE JoinLoop(reg, mods, n, i + 1,
                  JoinOnce(reg, mods, [k \in 1..n |-> k], i, [st EXCEPT !.top = i], 1))

\* join(query, spec): the FROM table, then every other entry in list order.
Join(reg, mods, joins, uid) ==
    LET from  == joins[1]
        name  == from.name
        alias == Or(from.as, reg[name].as)
        root  == [resolved |-> TRUE, table |-> name, alias |-> Or(alias, name)]
        st0   == [heap  |-> [joins EXCEPT ![1].model = root],
                  names |-> <<[alias |-> Or(alias, name), used |-> 1]>>,
                  edges |-> <<>>,
                  nodes |-> <<[entry |-> 1, table |-> name, alias |-> Or(alias, name),
                               via |-> FALSE]>>,
                  vias  |-> {},
                  uid   |-> uid,
                  top   |-> 1,
                  err   |-> NoErr]
    IN JoinLoop(reg, mods, Len(joins), 2, st0)

\* ---------------------------------------------------------------- functions

\* The spellings of the function names the model uses.
LetterCases ==
    { [lower |-> "sum",   mixed |-> "Sum",   upper |-> "SUM"],
      [lower |-> "round", mixed |-> "Round", upper |-> "ROUND"],
      [lower |-> "myfn",  mixed |-> "MyFn",  upper |-> "MYFN"] }

CaseOf(s) == CHOOSE c \in LetterCases : s \in {c.lower, c.mixed, c.upper}

HasCase(s) == \E c \in LetterCases : s \in {c.lower, c.mixed, c.upper}

ToUpperCase(s) == IF HasCase(s) THEN CaseOf(s).upper ELSE s

ToLowerCase(s) == IF HasCase(s) THEN CaseOf(s).lower ELSE s

\* Arguments as registerFunction and select prefill them: a falsy argument
\* other than 0 is the placeholder _ of _.partial ("" here).
Placeholder == ""

Prefill(args) == [i \in DOMAIN args |-> IF Truthy(args[i]) THEN args[i] ELSE Placeholder]

\* _.partial(f, bound...)(call...): the placeholders of bound take the call
\* arguments from the left, and the call arguments left over follow.
RECURSIVE Fill(_, _)
Fill(bound, call) ==
    IF bound = <<>> THEN call
    ELSE IF Head(bound) = Placeholder
         THEN IF call = <<>> THEN <<Undefined>> \o Fill(Tail(bound), call)
              ELSE <<Head(call)>> \o Fill(Tail(bound), Tail(call))
         ELSE <<Head(bound)>> \o Fill(Tail(bound), call)

RECURSIVE Commas(_)
Commas(args) ==
    IF args = <<>> THEN ""
    ELSE IF Len(args) = 1 THEN Head(args)
         ELSE Head(args) \o ", " \o Commas(Tail(args))

\* The SQL text of funcDef(selection), for funcDef as registered and the
\* arguments the select entry binds in front of it (lines 413 to 421).
CallFunction(funcDef, useArgs, selection) ==
    LET outer == IF useArgs = <<>> THEN <<selection>>
                 ELSE Fill(Prefill(useArgs), <<selection>>)
        inner == Fill(funcDef.args, outer)
    IN funcDef.name \o "(" \o Commas(inner) \o ")"

\* this.functions after registerFunction(id, name, args...).
RegisterFunction(funcs, id, name, args) ==
    (Or(id, name) :> [name |-> Or(name, id), args |-> Prefill(args)]) @@ funcs

\* The functions cloned from the sql package at construction.
SqlFunctions ==
    [f \in {"SUM", "ROUND"} |-> [name |-> f, args |-> <<>>]]

Unreversed(s) == s

Reverse(s) == [i \in DOMAIN s |-> s[Len(s) + 1 - i]]

\* What a function entry looks like after the loop visited it: an object
\* has its name uppercased in place, a string stays as written.
Visited(func) == IF func.str THEN func ELSE [func EXCEPT !.name = ToUpperCase(@)]

\* The suffix step of the alias (qb.js line 420).
AliasStep(alias, selectName, funcName) ==
    Or(alias, selectName) \o "_" \o ToLowerCase(funcName)

\* The forEach over select.functions.reverse(): acc carries the alias, the
\* selection and this.functions.
RECURSIVE ApplyFunctions(_, _, _)
ApplyFunctions(fs, selectName, acc) ==
    IF fs = <<>> THEN acc
    ELSE LET func    == Head(fs)
             name    == ToUpperCase(func.name)
             known   == name \in DOMAIN acc.functions
             funcs   == IF known THEN acc.functions
                        ELSE RegisterFunction(acc.functions, name, Undefined, <<>>)
             funcDef == funcs[name]
         IN ApplyFunctions(Tail(fs), selectName,
                [alias     |-> AliasStep(acc.alias, selectName, name),
                 selection |-> CallFunction(funcDef, func.args, acc.selection),
                 applied   |-> Append(acc.applied, name),
                 functions |-> funcs])

DerivedAliasFirst(selectAs, alias) == Or(alias, selectAs)

\* The alias of the projection term (qb.js line 425, select.js line 101).
FinalAlias(selectAs, alias) == Or(selectAs, alias)

ColumnError(column, table) ==
    [type |-> "Error", kind |-> "ColumnNotDefined", names |-> <<column, table>>]

\* ---------------------------------------------------------------- select (qb.js)

\* The body of the forEach of select, for the i-th entry of spec.selects.
SelectOne(reg, mods, joins, st, i) ==
    LET select == st.selects[i]
        j      == SourceOf(joins, [k \in DOMAIN joins |-> k], select.joinId)
        join   == joins[j]
        cols   == reg[join.name].columns
        c      == IndexOf(cols, select.name)
    IN
    IF c = 0 THEN Fail(st, ColumnError(select.name, join.name))
    ELSE IF cols[c].name \notin mods[join.model.table]
         THEN Fail(st, ColumnError(cols[c].name, join.name))
    ELSE
    LET rev == Reverse(select.functions)
        acc == ApplyFunctions(rev, select.name,
                              [alias |-> cols[c].as, selection |-> cols[c].name,
                               applied |-> <<>>, functions |-> st.functions])
    IN [st EXCEPT !.selects[i].functions = [k \in DOMAIN rev |-> Visited(rev[k])],
                  !.functions = acc.functions,
                  !.terms = Append(@, [select  |-> i,
                                       join    |-> j,
                                       tableAs |-> join.model.alias,
                                       column  |-> cols[c].name,
                                       expr    |-> acc.selection,
                                       applied |-> acc.applied,
                                       alias   |-> FinalAlias(select.as, acc.alias)])]

RECURSIVE SelectLoop(_, _, _, _, _)
SelectLoop(reg, mods, joins, st, i) ==
    IF i > Len(st.selects) \/ st.err # NoErr THEN st
    ELSE SelectLoop(reg, mods, joins, SelectOne(reg, mods, joins, st, i), i + 1)

\* ---------------------------------------------------------------- select (lib/select.js)

\* qb.spec.joins.findWhere({ id: id }) and findWhere({ name: n }) of the
\* join collection: the first join entry that matches, else the root.
CollectionFindWhereId(joins, id) ==
    IF \E k \in DOMAIN joins : joins[k].id = id
    THEN CHOOSE k \in DOMAIN joins : joins[k].id = id /\ \A m \in 1..(k - 1) : joins[m].id # id
    ELSE IF joins = <<>> THEN 0 ELSE 1

CollectionFindWhereName(joins, n) ==
    IF IndexOf(joins, n) # 0 THEN IndexOf(joins, n)
    ELSE IF joins = <<>> THEN 0 ELSE 1

\* Lines 43 to 47 of SelectSpec.prototype.toSQL: the join entry selected
\* from, 0 when the lookup gave undefined.
OwningJoin(joins, select) ==
    IF Truthy(select.joinId) THEN CollectionFindWhereId(joins, select.joinId)
    ELSE IF Truthy(select.on) THEN CollectionFindWhereName(joins, select.on)
    ELSE IF Truthy(select.table) THEN CollectionFindWhereName(joins, select.table)
    ELSE IF joins = <<>> THEN 0 ELSE 1

\* The suffix step of the alias (select.js line 94).
LibAliasStep(alias, selectName, funcName) ==
    Or(alias, Or(selectName, "col")) \o "_" \o ToLowerCase(funcName)

RECURSIVE LibApplyFunctions(_, _, _)
LibApplyFunctions(fs, selectName, acc) ==
    IF fs = <<>> THEN acc
    ELSE LET func    == Head(fs)
             name    == ToUpperCase(func.name)
             known   == name \in DOMAIN acc.functions
             funcs   == IF known THEN acc.functions
                        ELSE RegisterFunction(acc.functions, name, Undefined, <<>>)
             funcDef == funcs[name]
         IN LibApplyFunctions(Tail(fs), selectName,
                [alias     |-> LibAliasStep(acc.alias, selectName, name),
                 selection |-> CallFunction(funcDef, func.args, acc.selection),
                 applied   |-> Append(acc.applied, name),
                 functions |-> funcs])

IsFinite(value) == value.t \in {"number", "string"} /\ value.finite

\* SelectSpec.prototype.toSQL(qb) for the i-th select entry.
ToSQL(reg, mods, joins, st, i) ==
    LET select == st.selects[i]
        j      == OwningJoin(joins, select)
    IN
    IF j = 0 THEN Fail(st, TypeError("join undefined"))
    ELSE
    LET join     == joins[j]
        cols     == reg[join.name].columns
        c        == IndexOf(cols, select.name)
        hasDef   == c # 0
        hasModel == hasDef /\ cols[c].name \in mods[join.model.table]
    IN
    IF ~hasDef /\ select.value.t = "undefined"
    THEN Fail(st, ColumnError(select.name, join.name))
    ELSE IF hasDef /\ ~hasModel THEN Fail(st, ColumnError(cols[c].name, join.name))
    ELSE IF ~hasDef /\ ~IsFinite(select.value) /\ select.value.t # "string"
         THEN Fail(st, TypeError("def undefined"))
    ELSE
    LET base == IF hasDef THEN cols[c].name
                ELSE IF IsFinite(select.value) THEN select.value.v
                ELSE "'" \o select.value.v \o "'"
        rev  == Reverse(select.functions)
        acc  == LibApplyFunctions(rev, select.name,
                                  [alias |-> IF hasDef THEN cols[c].as ELSE Undefined,
                                   selection |-> base,
                                   applied |-> <<>>, functions |-> st.functions])
    IN [st EXCEPT !.selects[i].functions = [k \in DOMAIN rev |-> Visited(rev[k])],
                  !.functions = acc.functions,
                  !.terms = Append(@, [select  |-> i,
                                       join    |-> j,
                                       tableAs |-> join.model.alias,
                                       column  |-> IF hasDef THEN cols[c].name ELSE Undefined,
                                       expr    |-> acc.selection,
                                       applied |-> acc.applied,
                                       alias   |-> FinalAlias(select.as, acc.alias)])]

\* Selects.prototype.toSQL: every select entry in order.
RECURSIVE SelectsToSQL(_, _, _, _, _)
SelectsToSQL(reg, mods, joins, st, i) ==
    IF i > Len(st.selects) \/ st.err # NoErr THEN st
    ELSE SelectsToSQL(reg, mods, joins, ToSQL(reg, mods, joins, st, i), i + 1)

\* new SelectSpec(select, spec): a string becomes { name }, an object keeps
\* its whitelisted keys.
SelectSpec(el) ==
    IF el.str
    THEN [name |-> el.name, joinId |-> Undefined, as |-> Undefined, functions |-> <<>>,
          on |-> Undefined, table |-> Undefined, value |-> NoValue]
    ELSE [name |-> el.name, joinId |-> el.joinId, as |-> el.as, functions |-> el.functions,
          on |-> el.on, table |-> el.table, value |-> el.value]

\* ---------------------------------------------------------------- query

NoEntry == [given |-> FALSE, str |-> FALSE, id |-> Undefined, name |-> Undefined,
            as |-> Undefined, joinId |-> Undefined]

NoSpec == [given |-> FALSE, from |-> NoEntry, joins |-> <<>>, selects |-> <<>>]

NoResult == [edges |-> <<>>, nodes |-> <<>>, terms |-> <<>>, joins |-> <<>>]

\* The caller's view of a join entry and of a select entry that query left
\* in the spec object.
HeldJoin(e) == [given |-> TRUE, str |-> FALSE, id |-> e.id, name |-> e.name, as |-> e.as,
                joinId |-> e.joinId]

HeldSelect(e) == [str |-> FALSE, name |-> e.name, joinId |-> e.joinId, as |-> e.as,
                  functions |-> e.functions, on |-> e.on, table |-> e.table,
                  value |-> e.value]

HeldSpec(joins, selects) ==
    [given |-> TRUE, from |-> NoEntry,
     joins |-> [k \in DOMAIN joins |-> HeldJoin(joins[k])],
     selects |-> [k \in DOMAIN selects |-> HeldSelect(selects[k])]]

ViaPushedToSpecJoins(heap, n) == heap

\* The entries of spec.joins after join(): the entries synthesized for via
\* tables live in their own stub specs and are not among them.
SpecJoins(heap, n) == SubSeq(heap, 1, n)

\* What a call of query that threw leaves: the error, nothing built, the
\* spec object as far as it was rewritten, the functions and the counter.
Thrown(e, joins, selects, funcs, uid) ==
    [err |-> e, result |-> NoResult, held |-> HeldSpec(joins, selects),
     functions |-> funcs, uid |-> uid]

\* query after select(query, spec): js is the state join left, resolved
\* spec.joins, ss the state the select phase left.
QuerySelected(js, resolved, ss) ==
    IF ss.err # NoErr THEN Thrown(ss.err, resolved, ss.selects, ss.functions, js.uid)
    ELSE [err |-> NoErr,
          result |-> [edges |-> js.edges, nodes |-> js.nodes, terms |-> ss.terms,
                      joins |-> resolved],
          held |-> HeldSpec(resolved, ss.selects),
          functions |-> ss.functions,
          uid |-> js.uid]

\* query after join(query, spec).
QueryJoined(reg, mods, funcs, selects, js, resolved, lib) ==
    IF js.err # NoErr THEN Thrown(js.err, resolved, selects, funcs, js.uid)
    ELSE QuerySelected(js, resolved,
            IF lib
            THEN SelectsToSQL(reg, mods, resolved,
                    [selects |-> selects, functions |-> funcs, terms |-> <<>>, err |-> NoErr], 1)
            ELSE SelectLoop(reg, mods, resolved,
                    [selects |-> selects, functions |-> funcs, terms |-> <<>>, err |-> NoErr], 1))

\* query after querySetup(spec) gave spec.joins and spec.selects.
QuerySetUp(reg, mods, funcs, uid, joins, selects, lib) ==
    IF joins = <<>> THEN Thrown(TypeError("spec.joins[0] undefined"), joins, selects, funcs, uid)
    ELSE IF joins[1].name \notin DOMAIN mods
         THEN Thrown(TypeError("this.models[from] undefined"), joins, selects, funcs, uid)
    ELSE LET js == Join(reg, mods, joins, uid)
         IN QueryJoined(reg, mods, funcs, selects, js, SpecJoins(js.heap, Len(joins)), lib)

\* Qb.prototype.query(spec), with the select phase of qb.js (lib = FALSE)
\* or of lib/select.js (lib = TRUE).  The outcome names the error thrown,
\* what was built, and the state the call leaves behind.
QueryOutcome(reg, mods, funcs, uid, spec, lib) ==
    IF ~spec.given
    THEN [err |-> [type |-> "Error", kind |-> "NoParameters", names |-> <<>>],
          result |-> NoResult, held |-> spec, functions |-> funcs, uid |-> uid]
    ELSE QuerySetUp(reg, mods, funcs, uid, SetupJoins(spec),
                    IF lib THEN [i \in DOMAIN spec.selects |-> SelectSpec(spec.selects[i])]
                    ELSE SetupSelects(spec),
                    lib)

\* ---------------------------------------------------------------- inputs: definitions

Str(name, as) ==
    [name |-> name, str |-> TRUE, as |-> as, hidden |-> FALSE, primary_key |-> FALSE]

Obj(name, as, hidden, pk) ==
    [name |-> name, str |-> FALSE, as |-> as, hidden |-> hidden, primary_key |-> pk]

JoinOn(name, via) ==
    [name |-> name, as |-> Undefined, source_key |-> Undefined, target_key |-> Undefined,
     via |-> via]

Table(name, as, hidden, cshape, cols, jshape, joins) ==
    [name |-> name, as |-> as, hidden |-> hidden, primary_key |-> Undefined,
     columns |-> [shape |-> cshape, items |-> cols],
     joins   |-> [shape |-> IF joins = <<>> THEN "none" ELSE jshape, items |-> joins]]

\* The option record of the default schema: tables A (primary key id by
\* default), B (primary key bid, by a column marked primary_key) and C;
\* A joins B, A joins C via B, A joins itself, B joins C.
Base ==
    [order |-> "AB", cshape |-> "list", jshape |-> "list", hiddenB |-> FALSE,
     aliasA |-> Undefined, aliasB |-> Undefined, amountAs |-> Undefined,
     chain |-> "none", dangling |-> "none"]

TableA(o) ==
    Table("A", o.aliasA, FALSE, o.cshape,
          <<Str("id", Undefined),
            IF o.cshape = "list" THEN Obj("amount", o.amountAs, FALSE, FALSE)
            ELSE Str("amount", o.amountAs),
            Obj("note", Undefined, TRUE, FALSE)>>,
          o.jshape,
          <<JoinOn("B", Undefined), JoinOn("C", "B"), JoinOn("A", Undefined)>>
          \o (IF o.chain = "source" THEN <<JoinOn("D", "C")>> ELSE <<>>)
          \o (IF o.dangling = "A" THEN <<JoinOn("Z", Undefined)>> ELSE <<>>))

TableB(o) ==
    Table("B", o.aliasB, o.hiddenB, o.cshape,
          <<Obj("bid", Undefined, FALSE, TRUE), Str("a_id", Undefined)>>,
          o.jshape,
          (IF o.chain = "via" THEN <<JoinOn("C", "D"), JoinOn("D", Undefined)>>
           ELSE IF o.chain = "cycle" THEN <<JoinOn("C", "D"), JoinOn("D", "C")>>
           ELSE <<JoinOn("C", Undefined)>>)
          \o (IF o.dangling = "B" THEN <<JoinOn("Z", Undefined)>> ELSE <<>>))

TableC(o) ==
    Table("C", Undefined, FALSE, o.cshape,
          <<Str("id", Undefined), Str("b_id", Undefined)>>,
          o.jshape,
          IF o.chain = "source" THEN <<JoinOn("D", Undefined)>> ELSE <<>>)

TableD(o) ==
    Table("D", Undefined, FALSE, o.cshape, <<Str("id", Undefined)>>, o.jshape,
          IF o.chain = "via" THEN <<JoinOn("C", Undefined)>> ELSE <<>>)

Definitions(o) ==
    (IF o.order = "AB" THEN <<TableA(o), TableB(o)>> ELSE <<TableB(o), TableA(o)>>)
    \o <<TableC(o)>>
    \o (IF o.chain # "none" THEN <<TableD(o)>> ELSE <<>>)

DefOptions ==
    { [Base EXCEPT !.order = o, !.cshape = c, !.jshape = j] :
        o \in {"AB", "BA"}, c \in {"list", "map"}, j \in {"list", "map"} }
    \cup { [Base EXCEPT !.order = "BA", !.hiddenB = TRUE],
           [Base EXCEPT !.order = "BA", !.aliasA = "a"],
           [Base EXCEPT !.order = "BA", !.aliasB = "A_2"],
           [Base EXCEPT !.order = "BA", !.amountAs = "amt"],
           [Base EXCEPT !.order = "BA", !.cshape = "map", !.amountAs = "amt"],
           [Base EXCEPT !.order = "BA", !.chain = "source"],
           [Base EXCEPT !.order = "BA", !.chain = "via"],
           [Base EXCEPT !.order = "BA", !.chain = "cycle"],
           [Base EXCEPT !.hiddenB = TRUE, !.jshape = "map"],
           [Base EXCEPT !.dangling = "A"],
           [Base EXCEPT !.dangling = "B"],
           [Base EXCEPT !.order = "BA", !.dangling = "A"] }

\* The default schema under every option, and table C on its own.
DefInputs == { Definitions(o) : o \in DefOptions } \cup { <<TableC(Base)>> }

\* ---------------------------------------------------------------- inputs: query specs

J(name) == [given |-> TRUE, str |-> TRUE, id |-> Undefined, name |-> name,
            as |-> Undefined, joinId |-> Undefined]

JO(id, name, as, joinId) ==
    [given |-> TRUE, str |-> FALSE, id |-> id, name |-> name, as |-> as, joinId |-> joinId]

F(name) == [str |-> TRUE, name |-> name, args |-> <<>>]

FO(name, args) == [str |-> FALSE, name |-> name, args |-> args]

S(name) == [str |-> TRUE, name |-> name, joinId |-> Undefined, as |-> Undefined,
            functions |-> <<>>, on |-> Undefined, table |-> Undefined, value |-> NoValue]

SO(name, joinId, as, fs) ==
    [str |-> FALSE, name |-> name, joinId |-> joinId, as |-> as, functions |-> fs,
     on |-> Undefined, table |-> Undefined, value |-> NoValue]

\* A literal of a select entry: its JavaScript type, its text, and whether
\* _.isFinite accepts it (a number that is finite, a string that parses as
\* one).
Value(t, v, finite) == [t |-> t, v |-> v, finite |-> finite]

SL(name, on, table, value) ==
    [str |-> FALSE, name |-> name, joinId |-> Undefined, as |-> Undefined, functions |-> <<>>,
     on |-> on, table |-> table, value |-> value]

JoinLists ==
    { <<J("A")>>,
      <<J("A"), J("B")>>,
      <<J("A"), J("C")>>,
      <<J("A"), J("B"), J("C")>>,
      <<J("A"), J("A"), J("A")>>,
      <<J("A"), JO(Undefined, "A", "A_2", Undefined), J("A")>>,
      <<J("A"), J("A"), J("B")>>,
      <<JO("r", "A", "root", Undefined), JO(Undefined, "B", "root", Undefined)>>,
      <<J("A"), JO("b", "B", Undefined, Undefined), JO(Undefined, "C", Undefined, "b")>>,
      <<J("A"), JO(Undefined, "C", Undefined, "b"), JO("b", "B", Undefined, Undefined)>>,
      <<J("A"), JO("b", "B", Undefined, "zz")>>,
      <<J("A"), JO("c", "C", Undefined, "zz")>>,
      <<J("A"), JO("x", "A", Undefined, "x")>>,
      <<J("A"), JO("x", "A", Undefined, "zz")>>,
      <<J("A"), JO("_via_1", "B", Undefined, Undefined), J("C")>>,
      <<J("B"), J("A")>>,
      <<J("A"), J("D")>>,
      <<J("A"), JO("b", "B", Undefined, Undefined), JO(Undefined, "A", Undefined, "b")>>,
      <<>> }

\* The function chains of a select entry, up to MaxFuncs functions long.
FuncEntries == {F("SUM"), F("round"), FO("Round", <<>>), FO("MyFn", <<"", "2">>)}

RECURSIVE Chains(_)
Chains(n) ==
    IF n = 0 THEN {<<>>}
    ELSE Chains(n - 1) \cup
         { Append(c, f) : c \in {d \in Chains(n - 1) : Len(d) = n - 1}, f \in FuncEntries }

SelectLists ==
    { <<SO("amount", Undefined, as, c)>> : as \in {Undefined, "total"}, c \in Chains(MaxFuncs) }
    \cup
    { <<>>,
      <<S("id")>>,
      <<SO("amount", Undefined, Undefined, <<F("SUM"), F("ROUND")>>)>>,
      <<SO("bid", "b", Undefined, <<>>), S("amount")>>,
      <<SO("id", "zz", Undefined, <<>>)>>,
      <<SO("amount", "zz", Undefined, <<F("sum")>>), S("id")>>,
      <<SO("id", "_via_1", "v", <<>>)>>,
      <<S("nope")>>,
      <<SL("bid", "B", Undefined, NoValue)>>,
      <<SL("bid", Undefined, "B", NoValue)>>,
      <<SL("id", Undefined, "Z", NoValue)>>,
      <<SL("lit", Undefined, Undefined, Value("number", "5", TRUE))>>,
      <<SL("lit", "B", Undefined, Value("string", "x", FALSE))>>,
      <<SL("lit", Undefined, Undefined, Value("string", "12", TRUE))>>,
      <<SL("lit", Undefined, Undefined, Value("boolean", "true", FALSE))>>,
      <<SL("lit", Undefined, Undefined, Value("object", "null", FALSE))>>,
      <<SL("lit", Undefined, Undefined, NoValue)>>,
      <<SO("bid", "b", "total", <<F("sum")>>), SO("id", Undefined, "total", <<>>)>> }

Q(joins, selects) == [given |-> TRUE, from |-> NoEntry, joins |-> joins, selects |-> selects]

QueryInputs ==
    { Q(j, <<S("id")>>) : j \in JoinLists }
    \cup { Q(<<J("A"), JO("b", "B", Undefined, Undefined), J("C")>>, s) : s \in SelectLists }
    \cup { Q(<<J("A"), JO("_via_1", "B", Undefined, Undefined), J("C")>>,
             <<SO("id", v, Undefined, <<>>)>>) : v \in {"_via_1", "_via_2"} }
    \cup { [given |-> TRUE, from |-> J("A"), joins |-> <<J("B")>>, selects |-> <<S("amount")>>],
           Q(<<J("A"), JO("b", "B", Undefined, "zz")>>, <<SO("id", "zz", Undefined, <<>>)>>),
           Q(<<J("A"), J("C"), J("D")>>, <<SO("id", "_via_1", "v", <<>>)>>),
           NoSpec }

\* ---------------------------------------------------------------- the instance

\* Qb.prototype.define(defs) on an instance holding reg, mods and sch:
\* normalize, then the sql models, then buildSchema.  A throw of normalize
\* skips the rest.
DefineOutcome(defs, reg, mods, sch) ==
    LET n == Normalize(defs, reg)
    IN [registry |-> n.registry,
        input    |-> n.definitions,
        err      |-> n.err,
        models   |-> IF n.err = NoErr THEN DefineModels(n.definitions, mods) ELSE mods,
        schema   |-> IF n.err = NoErr THEN BuildSchema(n.definitions, 1, sch) ELSE sch]

\* new Qb(): nothing defined, the functions of the sql package.
Init ==
    /\ definitions = <<>>
    /\ models = <<>>
    /\ schema = <<>>
    /\ functions = SqlFunctions
    /\ idCounter = 0
    /\ defined = <<>>
    /\ input = <<>>
    /\ held = NoSpec
    /\ asked = NoSpec
    /\ op = "new"
    /\ err = NoErr
    /\ result = NoResult
    /\ defines = 0
    /\ queries = 0
    /\ registered = <<>>

\* new Qb(definitions), for definitions the constructor's define accepts.
\* Other users of underscore may have drawn unique ids before.
InitDefined ==
    \E defs \in DefInputs, uid \in 0..MaxUid :
        LET o == DefineOutcome(defs, <<>>, <<>>, <<>>)
        IN /\ o.err = NoErr
           /\ definitions = o.registry
           /\ models = o.models
           /\ schema = o.schema
           /\ functions = SqlFunctions
           /\ idCounter = uid
           /\ defined = defs
           /\ input = o.input
           /\ held = NoSpec
           /\ asked = NoSpec
           /\ op = "new"
           /\ err = NoErr
           /\ result = NoResult
           /\ defines = 1
           /\ queries = 0
           /\ registered = <<>>

DefineCall(defs) ==
    LET o == DefineOutcome(defs, definitions, models, schema)
    IN /\ defines' = defines + 1
       /\ definitions' = o.registry
       /\ defined' = defs
       /\ input' = o.input
       /\ err' = o.err
       /\ models' = o.models
       /\ schema' = o.schema
       /\ op' = "define"
       /\ UNCHANGED <<functions, idCounter, held, asked, result, queries, registered>>

\* define(definitions), also as the constructor calls it.
Define ==
    \E defs \in DefInputs :
        /\ defines < MaxDefines
        /\ DefineCall(defs)

\* define called again with the object the last call was given.
DefineAgain ==
    /\ defines < MaxDefines
    /\ input # <<>>
    /\ DefineCall(input)

QueryCall(spec, lib) ==
    LET o == QueryOutcome(definitions, models, functions, idCounter, spec, lib)
    IN /\ queries' = queries + 1
       /\ err' = o.err
       /\ result' = o.result
       /\ held' = o.held
       /\ asked' = spec
       /\ functions' = o.functions
       /\ idCounter' = o.uid
       /\ op' = IF lib THEN "querylib" ELSE "query"
       /\ UNCHANGED <<definitions, models, schema, defined, input, defines, registered>>

\* query(spec) of qb.js.
Query ==
    \E spec \in QueryInputs :
        /\ queries < MaxQueries
        /\ QueryCall(spec, FALSE)

\* query(spec) with the select list composed by lib/select.js.
QueryLib ==
    \E spec \in QueryInputs :
        /\ queries < MaxQueries
        /\ QueryCall(spec, TRUE)

\* The configuration calls on a fresh instance.
NextDefine == Define \/ DefineAgain

SpecDefine == Init /\ [][NextDefine]_vars

\* query(spec) called again with the spec object the last call was given,
\* as that call left it.
QueryAgain ==
    /\ op \in {"query", "querylib"}
    /\ queries < MaxQueries + MaxRepeats
    /\ QueryCall(held, op = "querylib")

\* The query calls on a configured instance.
NextQuery == Query \/ QueryLib \/ QueryAgain

SpecQuery == InitDefined /\ [][NextQuery]_vars

\* The arguments of a caller's registerFunction(id, name, args...): ids in
\* lower, mixed and upper case, with and without a name and arguments.
RegisterInputs ==
    { [id |-> "myfn", name |-> "ROUND",   args |-> <<"", "2">>],
      [id |-> "MyFn", name |-> Undefined, args |-> <<"", "3">>],
      [id |-> "MYFN", name |-> "ROUND",   args |-> <<"", "2">>],
      [id |-> "sum",  name |-> "ROUND",   args |-> <<>>],
      [id |-> "SUM",  name |-> "ROUND",   args |-> <<"", "1">>] }

\* registerFunction(id, name, args...) called by the user of the instance.
Register ==
    \E r \in RegisterInputs :
        /\ Len(registered) < MaxRegisters
        /\ functions' = RegisterFunction(functions, r.id, r.name, r.args)
        /\ registered' = Append(registered, r)
        /\ op' = "register"
        /\ err' = NoErr
        /\ UNCHANGED <<definitions, models, schema, idCounter, defined, input, held, asked,
                       result, defines, queries>>

\* The queries that name one function of the registry, in each letter case.
FunctionQueries ==
    { Q(<<J("A")>>, <<SO("amount", Undefined, Undefined, <<f>>)>>) :
        f \in {F("myfn"), F("MyFn"), F("MYFN"), FO("myfn", <<"", "9">>), F("sum"), F("SUM")} }

\* query(spec) naming a function, through either select phase.
QueryFunction ==
    \E spec \in FunctionQueries, lib \in BOOLEAN :
        /\ queries < MaxQueries
        /\ QueryCall(spec, lib)

\* registerFunction and query calls on a configured instance.
NextRegister == Register \/ QueryFunction

SpecRegister == InitDefined /\ [][NextRegister]_vars

\* ---------------------------------------------------------------- properties

Queried == op \in {"query", "querylib"}

Succeeded == Queried /\ err = NoErr

\* spec.joins as querySetup builds it from what the caller wrote.
AskedJoins == SetupJoins(asked)

AllOf(js) == [k \in DOMAIN js |-> k]

\* C1 (as claimed): within one query() the aliases assigned to the join
\* nodes (the root, the listed entries and the synthesized via entries) are
\* pairwise distinct.
C1_AliasesDistinct ==
    Succeeded =>
        \A i, j \in DOMAIN result.nodes :
            i # j => result.nodes[i].alias # result.nodes[j].alias

\* C2 (as claimed): with A (primary key id) joined to B (primary key bid by
\* a column marked primary_key) and no explicit keys, every predicate that
\* joins B to A is A.id = B.bid, whatever the order and shape of the
\* definitions.
C2_DefaultKeys ==
    Succeeded =>
        \A k \in DOMAIN result.edges :
            (result.edges[k].source = "A" /\ result.edges[k].target = "B")
                => (result.edges[k].sourceKey = "id" /\ result.edges[k].targetKey = "bid")

\* C3 (as claimed): after a define() that returned, the registry and the
\* public schema are those of a fresh instance on which only that define()
\* was called.
C3_RedefineReplaces ==
    (op = "define" /\ err = NoErr) =>
        LET fresh == DefineOutcome(defined, <<>>, <<>>, <<>>)
        IN definitions = fresh.registry /\ schema = fresh.schema

\* The (owner, target) pairs of the join entries of defs that name a table
\* that is not a key of defs.
DanglingJoins(defs) ==
    UNION { { <<defs[i].name, defs[i].joins.items[k].name>> :
                k \in { m \in DOMAIN defs[i].joins.items :
                            defs[i].joins.items[m].name \notin Names(defs) } } :
            i \in DOMAIN defs }

\* C7 (as claimed): a define() whose definitions hold a join entry naming a
\* table that is not among them throws an error naming the owning table and
\* the missing target, and after a define() that returned every key of
\* every registered table's joins is a registered table.
C7_UnknownTargetFatal ==
    (op = "define") =>
        /\ DanglingJoins(defined) # {} =>
                (err.type = "Error" /\ err.names \in DanglingJoins(defined))
        /\ err = NoErr =>
                \A t \in DOMAIN definitions :
                    \A k \in DOMAIN definitions[t].joins :
                        definitions[t].joins[k].name \in DOMAIN definitions

IsHiddenTable(t) == t \in DOMAIN definitions /\ definitions[t].hidden

IsHiddenColumn(t, c) ==
    /\ t \in DOMAIN definitions
    /\ \E k \in DOMAIN definitions[t].columns :
            definitions[t].columns[k].name = c /\ definitions[t].columns[k].hidden

\* C8 (as claimed, for the first define() on an instance): after define()
\* no hidden table has an entry in the public schema, is the target of a
\* listed join or is named as the via of a listed join, and no hidden
\* column is in a table's column list.
C8_HiddenAbsent ==
    (op = "define" /\ err = NoErr /\ defines = 1) =>
        \A i \in DOMAIN schema :
            /\ ~IsHiddenTable(schema[i].name)
            /\ \A k \in DOMAIN schema[i].columns :
                    ~IsHiddenColumn(schema[i].name, schema[i].columns[k].name)
            /\ \A k \in DOMAIN schema[i].joins :
                    /\ ~IsHiddenTable(schema[i].joins[k].name)
                    /\ ~IsHiddenTable(schema[i].joins[k].via)

\* The select entry of C4: column amount, functions [SUM, ROUND] as
\* declared, no arguments, no explicit as.
IsSumRound(sel) ==
    /\ ~sel.str
    /\ sel.name = "amount"
    /\ ~Truthy(sel.as)
    /\ Len(sel.functions) = 2
    /\ ToUpperCase(sel.functions[1].name) = "SUM"
    /\ ToUpperCase(sel.functions[2].name) = "ROUND"
    /\ sel.functions[1].args = <<>>
    /\ sel.functions[2].args = <<>>

\* The schema-declared alias of the column a projection term selects.
SchemaAliasOf(term) ==
    LET cols == definitions[result.joins[term.join].name].columns
    IN cols[IndexOf(cols, term.column)].as

\* C4 (as claimed): selecting amount (no schema alias) with functions
\* [SUM, ROUND] and no explicit as yields SUM(ROUND(amount)) under the
\* alias amount_sum_round.
C4_AliasSumRound ==
    Succeeded =>
        \A k \in DOMAIN result.terms :
            (IsSumRound(asked.selects[result.terms[k].select])
             /\ ~Truthy(SchemaAliasOf(result.terms[k])))
                => (result.terms[k].expr = "SUM(ROUND(amount))"
                    /\ result.terms[k].alias = "amount_sum_round")

\* C4 (amended): selecting amount (no schema alias) with functions
\* [SUM, ROUND] and no explicit as yields SUM(ROUND(amount)) under the
\* alias amount_round_sum: the suffixes follow the order of application,
\* innermost function first.
C4_AliasRoundSum ==
    Succeeded =>
        \A k \in DOMAIN result.terms :
            (IsSumRound(asked.selects[result.terms[k].select])
             /\ ~Truthy(SchemaAliasOf(result.terms[k])))
                => (result.terms[k].expr = "SUM(ROUND(amount))"
                    /\ result.terms[k].alias = "amount_round_sum")

\* A query of either select phase has built SUM(ROUND(amount)) for such an
\* entry.
C4_Witness ==
    /\ Succeeded
    /\ \E k \in DOMAIN result.terms :
            /\ IsSumRound(asked.selects[result.terms[k].select])
            /\ ~Truthy(SchemaAliasOf(result.terms[k]))
            /\ result.terms[k].applied = <<"ROUND", "SUM">>

\* C5: a select entry with an explicit as gives a projection term whose
\* alias is that as, whatever the schema alias and the function chain.
C5_ExplicitAs ==
    Succeeded =>
        \A k \in DOMAIN result.terms :
            Truthy(asked.selects[result.terms[k].select].as)
                => result.terms[k].alias = asked.selects[result.terms[k].select].as

\* A term built from an entry with an explicit as, over a column with a
\* schema alias and through two functions.
C5_Witness ==
    /\ Succeeded
    /\ \E k \in DOMAIN result.terms :
            /\ asked.selects[result.terms[k].select].as = "total"
            /\ Truthy(SchemaAliasOf(result.terms[k]))
            /\ Len(result.terms[k].applied) = 2
            /\ result.terms[k].alias = "total"

\* The predicate edges built for the listed join entry i, in the order they
\* were built.
EdgesOf(i) == SelectSeq(result.edges, LAMBDA e : e.top = i)

Hop(e) == <<e.source, e.sourceKey, e.target, e.targetKey>>

\* The hops the registry declares from table source to table target: the
\* JoinDef's own hop when it names no via, else the hops to the via table
\* followed by the hops from the via table.
RECURSIVE DeclaredHops(_, _, _, _)
DeclaredHops(reg, source, target, fuel) ==
    IF fuel = 0 \/ ~HasJoinDef(reg, source, target) THEN <<>>
    ELSE LET jd == JoinDefOf(reg, source, target)
         IN IF Truthy(jd.via)
            THEN DeclaredHops(reg, source, jd.via, fuel - 1)
                 \o DeclaredHops(reg, jd.via, target, fuel - 1)
            ELSE <<<<source, jd.source_key, target, jd.target_key>>>>

\* The number of via tables between source and target.
Intermediates(reg, source, target) == Len(DeclaredHops(reg, source, target, MaxStack)) - 1

\* C6: a listed join entry whose JoinDef names a via table gets the edges
\* source->via, via->target (k+1 edges through k chained intermediates),
\* each with the keys of the JoinDef of its own source table and each
\* starting at the alias the edge before it ended at; the entries
\* synthesized for via tables are not in the join list the call leaves, so
\* every projection term selects from a listed entry.
C6_ViaEdges ==
    Succeeded =>
        LET js == AskedJoins
        IN /\ Len(result.joins) = Len(js)
           /\ \A i \in 2..Len(js) :
                LET s  == SourceOf(js, AllOf(js), js[i].joinId)
                    es == EdgesOf(i)
                    k  == Intermediates(definitions, js[s].name, js[i].name)
                IN /\ Len(es) = k + 1
                   /\ [m \in DOMAIN es |-> Hop(es[m])]
                        = DeclaredHops(definitions, js[s].name, js[i].name, MaxStack)
                   /\ es[1].sourceAs = result.joins[s].model.alias
                   /\ \A m \in 1..k : es[m].via /\ es[m + 1].sourceAs = es[m].targetAs
                   /\ ~es[k + 1].via
                   /\ es[k + 1].targetAs = result.joins[i].model.alias
           /\ \A t \in DOMAIN result.terms :
                LET j == result.terms[t].join
                IN /\ j \in DOMAIN js
                   /\ result.joins[j].name = js[j].name
                   /\ result.joins[j].id = js[j].id
                   /\ result.terms[t].tableAs = result.joins[j].model.alias
                   /\ \A n \in DOMAIN result.nodes :
                        result.nodes[n].via => result.nodes[n].entry # j

\* A query joined one entry through one via table and another through two,
\* and selected with the joinId of a synthesized via entry.
C6_Witness ==
    /\ Succeeded
    /\ \E i \in DOMAIN AskedJoins : Len(EdgesOf(i)) = 2
    /\ \E i \in DOMAIN AskedJoins : Len(EdgesOf(i)) = 3
    /\ \E t \in DOMAIN result.terms, i \in DOMAIN AskedJoins :
            /\ result.joins[i].joinId # AskedJoins[i].joinId
            /\ SetupSelects(asked)[result.terms[t].select].joinId = result.joins[i].joinId

\* The first listed join entry resolves to the FROM table as its source, and
\* that table has no JoinDef for the entry's table.
MissingJoinDef ==
    LET js == AskedJoins
    IN /\ asked.given
       /\ Len(js) >= 2
       /\ js[1].name \in DOMAIN models
       /\ SourceOf(js, AllOf(js), js[2].joinId) = 1
       /\ ~HasJoinDef(definitions, js[1].name, js[2].name)

\* C9 (as claimed, for the first listed entry): when the resolved source
\* table has no JoinDef for the table a join entry names, query() aborts
\* with a resolution error naming the source table and the target table and
\* returns no SQL.
C9_MissingJoinDefNamed ==
    (Queried /\ MissingJoinDef) =>
        /\ err.type = "Error"
        /\ err.names = <<AskedJoins[1].name, AskedJoins[2].name>>
        /\ result = NoResult

\* The select entries as the select phase that ran reads them.
AskedSelects ==
    IF op = "querylib" THEN [i \in DOMAIN asked.selects |-> SelectSpec(asked.selects[i])]
    ELSE SetupSelects(asked)

\* No entry of the join list js has the id.
Unmatched(js, id) == FindWhereId(js, AllOf(js), id) = 0

\* Every listed join entry that names no parent, or a parent that is not in
\* the list, is joined to the root.
JoinsFallBackToRoot ==
    \A i \in 2..Len(AskedJoins) :
        Unmatched(AskedJoins, AskedJoins[i].joinId) =>
            /\ EdgesOf(i)[1].source = AskedJoins[1].name
            /\ EdgesOf(i)[1].sourceAs = result.nodes[1].alias

Rootward(select) ==
    /\ Unmatched(AskedJoins, select.joinId)
    /\ Truthy(select.joinId) \/ (~Truthy(select.on) /\ ~Truthy(select.table))

\* The spec with every joinId that matches no entry left out, and with it
\* the on and table that lib/select.js would then go by.
WithoutUnmatched(spec) ==
    LET js == SetupJoins(spec)
        join(e)   == IF ~e.str /\ Unmatched(js, e.joinId)
                     THEN [e EXCEPT !.joinId = Undefined] ELSE e
        select(e) == IF ~e.str /\ Truthy(e.joinId) /\ Unmatched(js, e.joinId)
                     THEN [e EXCEPT !.joinId = Undefined, !.on = Undefined,
                                    !.table = Undefined]
                     ELSE e
    IN [spec EXCEPT !.from = IF @.given THEN join(@) ELSE @,
                    !.joins = [i \in DOMAIN @ |-> join(@[i])],
                    !.selects = [i \in DOMAIN @ |-> select(@[i])]]

FirstSelectNotAColumn ==
    /\ op = "querylib"
    /\ asked.given
    /\ asked.selects # <<>>
    /\ AskedJoins # <<>>
    /\ AskedJoins[1].name \in DOMAIN models
    /\ Join(definitions, models, AskedJoins, 0).err = NoErr
    /\ LET j == OwningJoin(AskedJoins, AskedSelects[1])
       IN IndexOf(definitions[AskedJoins[j].name].columns, AskedSelects[1].name) = 0

\* The text of the literal built from a numeric or string value.
LiteralOf(value) == IF IsFinite(value) THEN value.v ELSE "'" \o value.v \o "'"

\* C11 (as claimed, for the select phase of lib/select.js): a select entry
\* that names no column of its table gives a literal expression when it
\* carries a numeric or string value; with no value, or a value that is
\* neither, the query fails with a column-not-found error naming the column
\* and the table, and builds no term.
C11_LiteralOrColumnError ==
    FirstSelectNotAColumn =>
        LET select == AskedSelects[1]
            table  == AskedJoins[OwningJoin(AskedJoins, select)].name
        IN IF select.value.t \in {"number", "string"}
           THEN /\ err = NoErr
                /\ result.terms[1].column = Undefined
                /\ result.terms[1].expr = LiteralOf(select.value)
           ELSE /\ err = ColumnError(select.name, table)
                /\ result = NoResult

\* C12 (as claimed): query() ends with a result or an error after a number
\* of joinOnce steps bounded by the join list and the via hops it implies,
\* so join resolution never runs until the call stack is exhausted, also
\* when via declarations refer to each other in a cycle.
C12_JoinResolutionBounded ==
    Queried => err.type # "RangeError"

\* C13 (as claimed): a query() that follows a successful query() gives the
\* same join tree, the same expressions and the same aliases when it is given
\* the same spec object, and query() leaves the registry and the public
\* schema as they are.
C13_SameSpecSameQuery ==
    [][(Succeeded /\ queries' = queries + 1 /\ asked' = held)
            => /\ err' = err
               /\ result'.edges = result.edges
               /\ result'.terms = result.terms
               /\ definitions' = definitions
               /\ schema' = schema]_vars

\* C14 (as claimed): whenever joinOnce builds the predicate of a join entry
\* the source entry it reads has a model, whatever the order of the join
\* list: no query ends on reading the model of a source entry that was not
\* resolved yet.
C14_SourceResolvedFirst ==
    Queried => err # TypeError("sourceJoin.model undefined")

\* The last call a caller made with an id that is func's name in some
\* letter case, or 0.
RECURSIVE LastRegistered(_, _)
LastRegistered(n, name) ==
    IF n = 0 THEN 0
    ELSE IF ToUpperCase(registered[n].id) = ToUpperCase(name) THEN n
         ELSE LastRegistered(n - 1, name)

\* The callable registerFunction(id, name, args...) returned.
CallableOf(r) == [name |-> Or(r.name, r.id), args |-> Prefill(r.args)]

\* The keys of this.functions that no caller and no construction put there.
LazilyRegistered ==
    DOMAIN functions \ (DOMAIN SqlFunctions \cup {registered[n].id : n \in DOMAIN registered})

\* C15 (as claimed): after registerFunction(id, name, args...), a query
\* whose select entry names that function by id in any letter case applies
\* the registered callable (SQL name and prefilled arguments) to the column
\* and registers no function lazily; and every entry a caller registered is
\* still the one the registry holds.
C15_RegisteredApplied ==
    Succeeded =>
        /\ \A k \in DOMAIN result.terms :
               LET sel == asked.selects[result.terms[k].select]
                   n   == LastRegistered(Len(registered), sel.functions[1].name)
               IN (Len(sel.functions) = 1 /\ n > 0)
                      => /\ result.terms[k].expr =
                                CallFunction(CallableOf(registered[n]), sel.functions[1].args,
                                             result.terms[k].column)
                         /\ LazilyRegistered = {}
        /\ \A n \in DOMAIN registered :
               LastRegistered(Len(registered), registered[n].id) = n
                   => functions[registered[n].id] = CallableOf(registered[n])

====
